---- MODULE Spec2Model ----
(***************************************************************************)
(* A model of the scraper dashboard client: the API facade (api.js), the   *)
(* Tweet Browser component (TweetsList) and the Operations Dashboard       *)
(* component (Dashboard).                                                  *)
(*                                                                         *)
(* JavaScript values are tagged records [t |-> type, v |-> payload].  A    *)
(* Number is either an integer (t = "number") or a fraction strictly       *)
(* between 0 and 1 given in hundredths (t = "fraction"), which is all the  *)
(* components ever hold (offsets, limits, and the quality thresholds 0.8,  *)
(* 0.6, 0.4).  A JavaScript object is a function from its keys to values;  *)
(* the order of its entries is the insertion order of the keys.            *)
(***************************************************************************)
EXTENDS Integers, Sequences, FiniteSets, TLC

VARIABLES
    arg,        \* input of the pure function under check
    ret,        \* <<>> before the call, <<result>> after it
    mounted,    \* which component instance is alive
    tl,         \* TweetsList state: tweets, loading, filters, selectedTweet
    tlFetches,  \* fetchTweets calls awaiting their response, oldest first; each
                \* notes whether a call made after it has been answered already
    db,         \* Dashboard state: analytics, schedulerStatus, sessions, loading, config
    dbFetches,  \* fetchDashboardData calls awaiting Promise.all, oldest first
    dbCalls,    \* handleRunScraping / handleToggleScheduler calls awaiting their response
    timers,     \* the Dashboard's interval and its pending 2 s timeouts
    events,     \* how many user events and timer firings have been handled
    loadMores,  \* load-more steps since the mount or the last filter change
    origin,     \* for each Dashboard slice, the fetchDashboardData call that wrote
                \* it: none yet, the last one that wrote anything, or an earlier one
    out         \* what the last step did: the handler run, console lines,
                \* toasts, HTTP requests sent, state setters called

vars == <<arg, ret, mounted, tl, tlFetches, db, dbFetches, dbCalls, timers,
          events, loadMores, origin, out>>

-----------------------------------------------------------------------------
(* Bounds of the model *)

MaxKeys == 3              \* keys of the objects handed to getTweets alone
MaxEvents == 2            \* user events and timer firings in one behaviour
MaxInflight == 2          \* calls of one component awaiting a response at once
MaxSelect == 1            \* the cards a user may open: the first MaxSelect
MaxScoreHundredths == 100 \* quality scores 0.00 .. 1.00, in hundredths

-----------------------------------------------------------------------------
(* JavaScript values *)

Undefined == [t |-> "undefined", v |-> "undefined"]
Null      == [t |-> "null", v |-> "null"]
Str(s)    == [t |-> "string", v |-> s]
Bool(b)   == [t |-> "boolean", v |-> b]
Num(n)    == [t |-> "number", v |-> n]
Frac(h)   == [t |-> "fraction", v |-> h]

\* String(value), the coercion URLSearchParams.append applies to its argument.
JSToString(val) ==
    CASE val.t = "string"    -> val.v
      [] val.t = "boolean"   -> IF val.v THEN "true" ELSE "false"
      [] val.t = "number"    -> ToString(val.v)
      [] val.t = "fraction"  -> IF val.v % 10 = 0
                                THEN "0." \o ToString(val.v \div 10)
                                ELSE IF val.v < 10 THEN "0.0" \o ToString(val.v)
                                                   ELSE "0." \o ToString(val.v)
      [] val.t = "undefined" -> "undefined"
      [] val.t = "null"      -> "null"

\* The truthiness of a value (used by `?.running` and `||`).
Truthy(val) ==
    CASE val.t = "string"    -> val.v # ""
      [] val.t = "boolean"   -> val.v
      [] val.t = "number"    -> val.v # 0
      [] val.t = "fraction"  -> TRUE
      [] OTHER               -> FALSE

-----------------------------------------------------------------------------
(* api.js: scraperAPI.getTweets *)

\* The keys of the filters object, in the order the component declares them.
FilterKeys == <<"query", "author", "category", "sentiment", "has_media",
                "is_thread", "min_quality_score", "limit", "offset">>

\* Object.entries(params): one [key, value] pair per own key, in key order.
ObjectEntries(params) ==
    LET keys == SelectSeq(FilterKeys, LAMBDA k : k \in DOMAIN params)
    IN  [i \in 1..Len(keys) |-> <<keys[i], params[keys[i]]>>]

\* A variant of the guard that tests truthiness: it drops false and 0 as well.
SentInQueryTruthy(value) == Truthy(value)

\* value !== undefined && value !== null && value !== ''
SentInQuery(value) ==
    /\ value # Undefined
    /\ value # Null
    /\ value # Str("")

RECURSIVE AppendEntries(_, _)
\* The forEach over the entries: queryParams.append(key, value) for each kept one.
AppendEntries(entries, queryParams) ==
    IF entries = <<>> THEN queryParams
    ELSE LET key   == Head(entries)[1]
             value == Head(entries)[2]
         IN  AppendEntries(Tail(entries),
                 IF SentInQuery(value)
                 THEN Append(queryParams, <<key, JSToString(value)>>)
                 ELSE queryParams)

\* new URLSearchParams() filled from params: the list of name/value pairs.
QueryParams(params) == AppendEntries(ObjectEntries(params), <<>>)

RECURSIVE QueryToString(_)
\* URLSearchParams.toString(): name=value joined by & (the names and values
\* of the model hold unreserved characters only, which are not escaped).
QueryToString(pairs) ==
    IF pairs = <<>> THEN ""
    ELSE pairs[1][1] \o "=" \o pairs[1][2]
         \o (IF Len(pairs) > 1 THEN "&" ELSE "") \o QueryToString(Tail(pairs))

\* The request getTweets issues: api.get(`/tweets?${queryParams.toString()}`).
GetTweets(params) ==
    [method |-> "GET",
     url    |-> "/tweets?" \o QueryToString(QueryParams(params)),
     query  |-> QueryParams(params)]

-----------------------------------------------------------------------------
(* TweetsList: getQualityColor, over scores in hundredths *)

HighQualityHundredths == 80
MediumQualityHundredths == 60

\* A variant with strict comparisons: the boundaries fall into the lower band.
GetQualityColorStrict(score) ==
    IF score > HighQualityHundredths THEN "text-green-600 bg-green-100"
    ELSE IF score > MediumQualityHundredths THEN "text-yellow-600 bg-yellow-100"
    ELSE "text-red-600 bg-red-100"

GetQualityColor(score) ==
    IF score >= HighQualityHundredths THEN "text-green-600 bg-green-100"
    ELSE IF score >= MediumQualityHundredths THEN "text-yellow-600 bg-yellow-100"
    ELSE "text-red-600 bg-red-100"

-----------------------------------------------------------------------------
(* What a step does besides changing state *)

NoEvent == <<"none">>

\* The record of one step: the handler that ran with its arguments, the lines
\* written to the console, the toasts raised, the HTTP requests sent and the
\* state setters called, each in program order.
Output(event, logs, toasts, http, sets) ==
    [event |-> event, logs |-> logs, toasts |-> toasts, http |-> http, sets |-> sets]

NoOutput == Output(NoEvent, <<>>, <<>>, <<>>, <<>>)

-----------------------------------------------------------------------------
(* api.js: the axios instance and its interceptors *)

\* The failures a call can end in: no response at all (a transport failure,
\* the 30 s timeout among them), or a response with a status outside 2xx.
Errors ==
    {[message |-> "timeout of 30000ms exceeded", response |-> Undefined],
     [message |-> "Request failed with status code 500",
      response |-> Str("Internal Server Error")]}

\* The request interceptor: logs the request and passes the config on.
RequestLog(request) ==
    "Making " \o request.method \o " request to " \o request.url

\* error.response?.data || error.message
ErrorText(error) ==
    IF Truthy(error.response) THEN error.response.v ELSE error.message

\* A variant of the response interceptor's error handler that rejects with a
\* new error of its own instead of the one it was given.
ResponseErrorWrapped(error) ==
    [log     |-> "API Error: " \o ErrorText(error),
     rejects |-> [message |-> "Request failed", response |-> Undefined]]

\* A variant of the response interceptor's error handler that forgets to log.
ResponseErrorSilent(error) ==
    [log     |-> "",
     rejects |-> error]

\* The response interceptor's error handler: console.error('API Error:', ...)
\* and Promise.reject(error).
ResponseError(error) ==
    [log     |-> "API Error: " \o ErrorText(error),
     rejects |-> error]

-----------------------------------------------------------------------------
(* TweetsList: state and handlers *)

DefaultLimit == 20

InitialFilters ==
    [query |-> Str(""), author |-> Str(""), category |-> Str(""),
     sentiment |-> Str(""), has_media |-> Null, is_thread |-> Null,
     min_quality_score |-> Null, limit |-> Num(DefaultLimit), offset |-> Num(0)]

TweetsListInit ==
    [tweets |-> <<>>, loading |-> TRUE, filters |-> InitialFilters,
     selectedTweet |-> Null]

\* What the filter controls can hand to handleFilterChange: the text typed in
\* a text box, or the option picked in a select (has_media maps '' to null and
\* the rest to a boolean; min_quality_score maps '' to null and the rest
\* through parseFloat).
FilterInputs ==
    ({"query"} \X {Str(""), Str("ai")})
    \cup ({"author"} \X {Str(""), Str("alice")})
    \cup ({"sentiment"} \X {Str(""), Str("positive")})
    \cup ({"has_media"} \X {Null, Bool(TRUE), Bool(FALSE)})
    \cup ({"min_quality_score"} \X {Null, Frac(80)})

\* A variant of the updater that forgets to reset the offset.
FilterChangeKeepOffset(prev, key, value) ==
    [k \in DOMAIN prev \cup {key} |-> IF k = key THEN value ELSE prev[k]]

\* The updater of handleFilterChange: {...prev, [key]: value, offset: 0}.
FilterChange(prev, key, value) ==
    [k \in DOMAIN prev \cup {key, "offset"} |->
        IF k = "offset" THEN Num(0)
        ELSE IF k = key THEN value
        ELSE prev[k]]

\* A variant of the updater that advances by one record instead of one page.
LoadMoreByOne(prev) ==
    [prev EXCEPT !.offset = Num(prev.offset.v + 1)]

\* The updater of handleLoadMore: {...prev, offset: prev.offset + prev.limit}.
LoadMore(prev) ==
    [prev EXCEPT !.offset = Num(prev.offset.v + prev.limit.v)]

FilterControls == {"query", "author", "sentiment", "has_media", "min_quality_score"}

\* A variant of the render that shows the spinner in place of everything
\* while loading, as the Dashboard does.
TweetsListControlsWhenLoaded(state) ==
    IF state.loading THEN {}
    ELSE FilterControls
         \cup (IF Len(state.tweets) > 0 THEN {"View Full Analysis"} ELSE {})
         \cup (IF Len(state.tweets) > 0 /\ Len(state.tweets) >= state.filters.limit.v
               THEN {"Load More Tweets"} ELSE {})
         \cup (IF state.selectedTweet # Null THEN {"close"} ELSE {})

\* The controls TweetsList renders: the filter controls always; the cards
\* (with their "View Full Analysis" buttons) unless loading or the list is
\* empty; "Load More Tweets" when the list is a full page; the overlay's close
\* button while a tweet is selected.
TweetsListControls(state) ==
    FilterControls
    \cup (IF ~state.loading /\ Len(state.tweets) > 0 THEN {"View Full Analysis"} ELSE {})
    \cup (IF Len(state.tweets) > 0 /\ Len(state.tweets) >= state.filters.limit.v
          THEN {"Load More Tweets"} ELSE {})
    \cup (IF state.selectedTweet # Null THEN {"close"} ELSE {})

\* The body of a successful list response: the backend's page for the request,
\* n records starting after the request's offset.
Page(params, n) == [i \in 1..n |-> [id |-> params.offset.v + i]]

PageLengths(params) == {0, 1, params.limit.v}

\* A variant of the success path that appends the page to the list.
FetchTweetsSucceededAppending(state, data) ==
    [state EXCEPT !.tweets = state.tweets \o data, !.loading = FALSE]

\* fetchTweets after a successful await: setTweets(response.data), then the
\* finally block's setLoading(false).
FetchTweetsSucceeded(state, data) ==
    [state EXCEPT !.tweets = data, !.loading = FALSE]

\* A variant of the failure path that empties the list.
FetchTweetsFailedClearing(state) ==
    [state EXCEPT !.tweets = <<>>, !.loading = FALSE]

\* fetchTweets after a failed await: the catch block changes no state, the
\* finally block calls setLoading(false).
FetchTweetsFailed(state) ==
    [state EXCEPT !.loading = FALSE]

\* A variant of the effect that aborts the calls still waiting when it runs
\* again, so that only the latest request can be answered.
FetchTweetsStartAborting(state, event, sets) ==
    LET request == GetTweets(state.filters)
    IN  /\ tl' = [state EXCEPT !.loading = TRUE]
        /\ tlFetches' = <<[params |-> state.filters, request |-> request,
                           overtaken |-> FALSE]>>
        /\ out' = Output(event, <<RequestLog(request)>>, <<>>, <<request>>,
                         sets \o <<"setLoading">>)

\* fetchTweets up to its await, run by the effect on [filters]:
\* setLoading(true) and scraperAPI.getTweets(filters).
FetchTweetsStart(state, event, sets) ==
    LET request == GetTweets(state.filters)
    IN  /\ tl' = [state EXCEPT !.loading = TRUE]
        /\ tlFetches' = Append(tlFetches, [params |-> state.filters, request |-> request,
                                           overtaken |-> FALSE])
        /\ out' = Output(event, <<RequestLog(request)>>, <<>>, <<request>>,
                         sets \o <<"setLoading">>)

\* The component is mounted: first render, then the effect.
MountTweetsList ==
    /\ mounted = "none"
    /\ mounted' = "TweetsList"
    /\ FetchTweetsStart(tl, <<"mount">>, <<>>)
    /\ UNCHANGED <<arg, ret, db, dbFetches, dbCalls, timers, events, loadMores, origin>>

\* A filter control changes: handleFilterChange, the render, the effect.  A
\* control reports a change only when its value differs from the one it shows.
HandleFilterChange(key, value) ==
    /\ mounted = "TweetsList"
    /\ key \in TweetsListControls(tl)
    /\ events < MaxEvents
    /\ Len(tlFetches) < MaxInflight
    /\ value # tl.filters[key]
    /\ events' = events + 1
    /\ loadMores' = 0
    /\ FetchTweetsStart([tl EXCEPT !.filters = FilterChange(tl.filters, key, value)],
                        <<"handleFilterChange", key, value>>, <<"setFilters">>)
    /\ UNCHANGED <<arg, ret, mounted, db, dbFetches, dbCalls, timers, origin>>

\* The "Load More Tweets" button is clicked: handleLoadMore, the render, the effect.
HandleLoadMore ==
    /\ mounted = "TweetsList"
    /\ events < MaxEvents
    /\ Len(tlFetches) < MaxInflight
    /\ "Load More Tweets" \in TweetsListControls(tl)
    /\ events' = events + 1
    /\ loadMores' = loadMores + 1
    /\ FetchTweetsStart([tl EXCEPT !.filters = LoadMore(tl.filters)],
                        <<"handleLoadMore">>, <<"setFilters">>)
    /\ UNCHANGED <<arg, ret, mounted, db, dbFetches, dbCalls, timers, origin>>

\* A variant in which the effect also runs when the selection changes, so
\* that opening a card fetches the list again.
SelectTweetRefetching(i) ==
    /\ mounted = "TweetsList"
    /\ events < MaxEvents
    /\ "View Full Analysis" \in TweetsListControls(tl)
    /\ i \in 1..Len(tl.tweets)
    /\ events' = events + 1
    /\ FetchTweetsStart([tl EXCEPT !.selectedTweet = tl.tweets[i]], <<"select", i>>,
                        <<"setSelectedTweet">>)
    /\ UNCHANGED <<arg, ret, mounted, db, dbFetches, dbCalls, timers, loadMores, origin>>

\* "View Full Analysis" on the i-th card: setSelectedTweet(tweet).
SelectTweet(i) ==
    /\ mounted = "TweetsList"
    /\ events < MaxEvents
    /\ "View Full Analysis" \in TweetsListControls(tl)
    /\ i \in 1..Len(tl.tweets)
    /\ events' = events + 1
    /\ tl' = [tl EXCEPT !.selectedTweet = tl.tweets[i]]
    /\ out' = Output(<<"select", i>>, <<>>, <<>>, <<>>, <<"setSelectedTweet">>)
    /\ UNCHANGED <<arg, ret, mounted, tlFetches, db, dbFetches, dbCalls, timers,
                   loadMores, origin>>

\* The close button of the detail overlay: setSelectedTweet(null).
CloseDetail ==
    /\ mounted = "TweetsList"
    /\ events < MaxEvents
    /\ "close" \in TweetsListControls(tl)
    /\ events' = events + 1
    /\ tl' = [tl EXCEPT !.selectedTweet = Null]
    /\ out' = Output(<<"close">>, <<>>, <<>>, <<>>, <<"setSelectedTweet">>)
    /\ UNCHANGED <<arg, ret, mounted, tlFetches, db, dbFetches, dbCalls, timers,
                   loadMores, origin>>

\* The sequence s without its i-th element.
RemoveAt(s, i) == SubSeq(s, 1, i - 1) \o SubSeq(s, i + 1, Len(s))

\* The pending calls once the i-th of them is answered: the calls made before
\* it that are still waiting have been overtaken.
Answered(pending, i) ==
    RemoveAt([j \in 1..Len(pending) |->
                 IF j < i THEN [pending[j] EXCEPT !.overtaken = TRUE] ELSE pending[j]],
             i)

\* A setter called on an unmounted component changes nothing.
Alive(component) == mounted = component

\* The i-th pending list request succeeds: fetchTweets resumes after the await,
\* setTweets(response.data), then the finally block.
TweetsResolved(i, n) ==
    /\ i \in 1..Len(tlFetches)
    /\ n \in PageLengths(tlFetches[i].params)
    /\ tlFetches' = Answered(tlFetches, i)
    /\ tl' = IF Alive("TweetsList")
             THEN FetchTweetsSucceeded(tl, Page(tlFetches[i].params, n))
             ELSE tl
    /\ out' = Output(<<"resolved", "fetchTweets", i, tlFetches[i]>>,
                     <<>>, <<>>, <<>>,
                     <<"setTweets", "setLoading">>)
    /\ UNCHANGED <<arg, ret, mounted, db, dbFetches, dbCalls, timers, events,
                   loadMores, origin>>

\* The i-th pending list request fails: the response interceptor, then the
\* catch block of fetchTweets, then the finally block.
TweetsRejected(i, error) ==
    LET handled == ResponseError(error)
    IN  /\ i \in 1..Len(tlFetches)
        /\ tlFetches' = Answered(tlFetches, i)
        /\ tl' = IF Alive("TweetsList") THEN FetchTweetsFailed(tl) ELSE tl
        /\ out' = Output(<<"rejected", "fetchTweets", error>>,
                         <<handled.log,
                           "Error fetching tweets: " \o handled.rejects.message>>,
                         <<"error: Failed to load tweets">>, <<>>, <<"setLoading">>)
        /\ UNCHANGED <<arg, ret, mounted, db, dbFetches, dbCalls, timers, events,
                       loadMores, origin>>

\* The component is torn down; nothing is cancelled.
UnmountTweetsList ==
    /\ mounted = "TweetsList"
    /\ mounted' = "TweetsList unmounted"
    /\ out' = Output(<<"unmount">>, <<>>, <<>>, <<>>, <<>>)
    /\ UNCHANGED <<arg, ret, tl, tlFetches, db, dbFetches, dbCalls, timers, events,
                   loadMores, origin>>

TweetsListNext ==
    \/ MountTweetsList
    \/ \E input \in FilterInputs : HandleFilterChange(input[1], input[2])
    \/ HandleLoadMore
    \/ \E i \in 1..MaxSelect : SelectTweet(i)
    \/ CloseDetail
    \/ \E i \in 1..MaxInflight, n \in {0, 1, DefaultLimit} : TweetsResolved(i, n)
    \/ \E i \in 1..MaxInflight, error \in Errors : TweetsRejected(i, error)
    \/ UnmountTweetsList

-----------------------------------------------------------------------------
(* api.js: the calls the Dashboard makes *)

GetAnalytics       == [method |-> "GET", url |-> "/analytics"]
GetSchedulerStatus == [method |-> "GET", url |-> "/scheduler/status"]
GetSessions(limit) == [method |-> "GET", url |-> "/scraper/sessions?limit=" \o ToString(limit)]
GetConfig          == [method |-> "GET", url |-> "/config"]
RunScraping        == [method |-> "POST", url |-> "/scraper/run"]
StartScheduler     == [method |-> "POST", url |-> "/scheduler/start"]
StopScheduler      == [method |-> "POST", url |-> "/scheduler/stop"]

-----------------------------------------------------------------------------
(* Dashboard: state and handlers *)

\* A JavaScript object with the fields of the function f.
Obj(f) == [t |-> "object", v |-> f]

EmptyObject == Obj([k \in {} |-> Null])
EmptyArray  == <<>>

\* value?.key
Get(value, key) ==
    IF value.t = "object" /\ key \in DOMAIN value.v THEN value.v[key] ELSE Undefined

DashboardInit ==
    [analytics |-> Null, schedulerStatus |-> Null, sessions |-> EmptyArray,
     loading |-> TRUE, config |-> Null]

SessionsLimit == 5

\* The four requests of fetchDashboardData, in the order Promise.all lists them.
Slices == <<"analytics", "schedulerStatus", "sessions", "config">>

DashboardRequests ==
    <<GetAnalytics, GetSchedulerStatus, GetSessions(SessionsLimit), GetConfig>>

\* The bodies the backend can answer each of the four requests with.
ResponseData(slice) ==
    CASE slice = "analytics"       -> {Obj([total_tweets |-> Num(42)])}
      [] slice = "schedulerStatus" -> {Obj([running |-> Bool(TRUE)]),
                                       Obj([running |-> Bool(FALSE)])}
      [] slice = "sessions"        -> {<<[id |-> 1]>>}
      [] slice = "config"          -> {Obj([batch_size |-> Num(50)])}

\* A variant of the per-request catch that lets the rejection through, so that
\* Promise.all rejects and nothing is committed.
CaughtNothing(slice, outcome) ==
    IF outcome.ok THEN [data |-> outcome.data, thrown |-> FALSE]
    ELSE [data |-> Undefined, thrown |-> TRUE]

\* What one element of the Promise.all array settles to: the response, or what
\* its .catch(() => ({ data: ... })) puts in its place.
Caught(slice, outcome) ==
    IF outcome.ok THEN [data |-> outcome.data, thrown |-> FALSE]
    ELSE [data |-> (IF slice = "sessions" THEN EmptyArray ELSE EmptyObject),
          thrown |-> FALSE]

\* The response interceptor's lines for the rejected ones among the outcomes.
RECURSIVE ErrorLogs(_)
ErrorLogs(outcomes) ==
    IF outcomes = <<>> THEN <<>>
    ELSE (IF Head(outcomes).ok THEN <<>>
          ELSE <<ResponseError(Head(outcomes).error).log>>)
         \o ErrorLogs(Tail(outcomes))

\* The scheduler call the toggle makes: schedulerStatus?.running decides.
ToggleCallInverted(schedulerStatus) ==
    IF Truthy(Get(schedulerStatus, "running")) THEN StartScheduler ELSE StopScheduler

ToggleCall(schedulerStatus) ==
    IF Truthy(Get(schedulerStatus, "running")) THEN StopScheduler ELSE StartScheduler

\* The controls Dashboard renders: while loading it returns the spinner alone,
\* otherwise the header with its two buttons.
DashboardControls(state) ==
    IF state.loading THEN {} ELSE {"Run Scraping", "Toggle Scheduler"}

\* The text of the Scheduler card.
SchedulerShown(state) ==
    IF Truthy(Get(state.schedulerStatus, "running")) THEN "Running" ELSE "Stopped"

\* Before any call of fetchDashboardData has written, no slice has an origin.
OriginInit == [s \in {Slices[k] : k \in 1..Len(Slices)} |-> "none"]

\* A variant of the success path in which a request that came back without
\* data leaves its slice as it was.
RefreshSucceededSkippingEmpty(state, origins, res) ==
    LET Slot(s) == CHOOSE k \in 1..Len(Slices) : Slices[k] = s
        Wrote(s) == IF s = "sessions" THEN Len(res[Slot(s)].data) > 0
                    ELSE DOMAIN res[Slot(s)].data.v # {}
    IN  [state  |-> [s \in DOMAIN state |->
                        IF s = "loading" THEN FALSE
                        ELSE IF Wrote(s) THEN res[Slot(s)].data
                        ELSE state[s]],
         origin |-> [s \in DOMAIN origins |->
                        IF Wrote(s) THEN "last"
                        ELSE IF origins[s] = "last" THEN "earlier"
                        ELSE origins[s]]]

\* fetchDashboardData after its await: the four setters, each with the data
\* of its element of the Promise.all array, then the finally block's
\* setLoading(false).  Every slice is now of this call.
RefreshSucceeded(state, origins, res) ==
    [state  |-> [analytics |-> res[1].data, schedulerStatus |-> res[2].data,
                 sessions |-> res[3].data, config |-> res[4].data,
                 loading |-> FALSE],
     origin |-> [s \in DOMAIN origins |-> "last"]]

\* fetchDashboardData up to its await: setLoading(true) and the four requests.
FetchDashboardStart(event, logs, toasts) ==
    /\ db' = IF Alive("Dashboard") THEN [db EXCEPT !.loading = TRUE] ELSE db
    /\ dbFetches' = Append(dbFetches, [requests |-> DashboardRequests,
                                       overtaken |-> FALSE])
    /\ out' = Output(event,
                     logs \o [i \in 1..Len(DashboardRequests) |->
                                 RequestLog(DashboardRequests[i])],
                     toasts, DashboardRequests, <<"setLoading">>)

\* The component is mounted: first render, then the effect, which fetches and
\* starts the 30 s interval.
MountDashboard ==
    /\ mounted = "none"
    /\ mounted' = "Dashboard"
    /\ timers' = [timers EXCEPT !.interval = TRUE]
    /\ FetchDashboardStart(<<"mount">>, <<>>, <<>>)
    /\ UNCHANGED <<arg, ret, tl, tlFetches, dbCalls, events, loadMores, origin>>

\* The interval fires.
Tick ==
    /\ timers.interval
    /\ events < MaxEvents
    /\ Len(dbFetches) < MaxInflight
    /\ events' = events + 1
    /\ FetchDashboardStart(<<"tick">>, <<>>, <<>>)
    /\ UNCHANGED <<arg, ret, mounted, tl, tlFetches, dbCalls, timers, loadMores, origin>>

\* The last of the four responses of the i-th pending fetchDashboardData call
\* arrives.  Each response fills only its own element of the Promise.all array
\* (through its .catch when it is a rejection), so the four are taken in one
\* step: Promise.all settles, and the function resumes after the await.
DashboardSettled(i, outcomes) ==
    LET res == [k \in 1..Len(Slices) |-> Caught(Slices[k], outcomes[k])]
        thrown == \E k \in 1..Len(Slices) : res[k].thrown
        written == RefreshSucceeded(db, origin, res)
    IN  /\ i \in 1..Len(dbFetches)
        /\ dbFetches' = Answered(dbFetches, i)
        /\ db' = IF ~Alive("Dashboard") THEN db
                 ELSE IF thrown THEN [db EXCEPT !.loading = FALSE]
                 ELSE written.state
        /\ origin' = IF Alive("Dashboard") /\ ~thrown THEN written.origin ELSE origin
        /\ out' = IF thrown
                  THEN Output(<<"settled", "fetchDashboardData", i, outcomes, dbFetches[i]>>,
                              ErrorLogs(outcomes) \o <<"Error fetching dashboard data">>,
                              <<"error: Failed to load dashboard data">>, <<>>,
                              <<"setLoading">>)
                  ELSE Output(<<"settled", "fetchDashboardData", i, outcomes, dbFetches[i]>>,
                              ErrorLogs(outcomes), <<>>, <<>>,
                              <<"setAnalytics", "setSchedulerStatus", "setSessions",
                                "setConfig", "setLoading">>)
        /\ UNCHANGED <<arg, ret, mounted, tl, tlFetches, dbCalls, timers, events, loadMores>>

\* "Run Scraping" is clicked: handleRunScraping up to its await.
HandleRunScraping ==
    /\ mounted = "Dashboard"
    /\ "Run Scraping" \in DashboardControls(db)
    /\ events < MaxEvents
    /\ Len(dbCalls) < MaxInflight
    /\ events' = events + 1
    /\ dbCalls' = Append(dbCalls, [handler |-> "handleRunScraping", request |-> RunScraping])
    /\ out' = Output(<<"handleRunScraping">>, <<RequestLog(RunScraping)>>,
                     <<"loading: Starting scraping session...">>, <<RunScraping>>, <<>>)
    /\ UNCHANGED <<arg, ret, mounted, tl, tlFetches, db, dbFetches, timers, loadMores, origin>>

\* The scheduler button is clicked: handleToggleScheduler up to its await.
HandleToggleScheduler ==
    LET request == ToggleCall(db.schedulerStatus)
    IN  /\ mounted = "Dashboard"
        /\ "Toggle Scheduler" \in DashboardControls(db)
        /\ events < MaxEvents
        /\ Len(dbCalls) < MaxInflight
        /\ events' = events + 1
        /\ dbCalls' = Append(dbCalls, [handler |-> "handleToggleScheduler",
                                       request |-> request])
        /\ out' = Output(<<"handleToggleScheduler", db.schedulerStatus>>,
                         <<RequestLog(request)>>, <<>>, <<request>>, <<>>)
        /\ UNCHANGED <<arg, ret, mounted, tl, tlFetches, db, dbFetches, timers, loadMores, origin>>

\* The i-th pending action call succeeds.  handleRunScraping: the success toast
\* and setTimeout(fetchDashboardData, 2000).  handleToggleScheduler: the success
\* toast and fetchDashboardData() at once.
CallResolved(i) ==
    /\ i \in 1..Len(dbCalls)
    /\ dbCalls' = RemoveAt(dbCalls, i)
    /\ IF dbCalls[i].handler = "handleRunScraping"
       THEN /\ timers' = [timers EXCEPT !.timeouts = @ + 1]
            /\ out' = Output(<<"resolved", "handleRunScraping">>, <<>>,
                             <<"success: Scraping session started!">>, <<>>, <<>>)
            /\ UNCHANGED <<db, dbFetches>>
       ELSE /\ Len(dbFetches) < MaxInflight
            /\ FetchDashboardStart(<<"resolved", "handleToggleScheduler">>, <<>>,
                   <<IF dbCalls[i].request = StopScheduler
                     THEN "success: Scheduler stopped"
                     ELSE "success: Scheduler started">>)
            /\ UNCHANGED timers
    /\ UNCHANGED <<arg, ret, mounted, tl, tlFetches, events, loadMores, origin>>

\* The i-th pending action call fails: the response interceptor, then the
\* handler's catch block.
CallRejected(i, error) ==
    LET handled == ResponseError(error)
    IN  /\ i \in 1..Len(dbCalls)
        /\ dbCalls' = RemoveAt(dbCalls, i)
        /\ out' = IF dbCalls[i].handler = "handleRunScraping"
                  THEN Output(<<"rejected", "handleRunScraping", error>>,
                              <<handled.log,
                                "Error running scraping: " \o handled.rejects.message>>,
                              <<"error: Failed to start scraping session">>, <<>>, <<>>)
                  ELSE Output(<<"rejected", "handleToggleScheduler", error>>,
                              <<handled.log,
                                "Error toggling scheduler: " \o handled.rejects.message>>,
                              <<"error: Failed to toggle scheduler">>, <<>>, <<>>)
        /\ UNCHANGED <<arg, ret, mounted, tl, tlFetches, db, dbFetches, timers, events, loadMores, origin>>

\* A 2 s timeout set by handleRunScraping fires: fetchDashboardData.
TimeoutFires ==
    /\ timers.timeouts > 0
    /\ Len(dbFetches) < MaxInflight
    /\ timers' = [timers EXCEPT !.timeouts = @ - 1]
    /\ FetchDashboardStart(<<"timeout">>, <<>>, <<>>)
    /\ UNCHANGED <<arg, ret, mounted, tl, tlFetches, dbCalls, events, loadMores, origin>>

\* A variant of the cleanup that also aborts the requests waiting and clears
\* the timeouts set by handleRunScraping.
UnmountDashboardCancelling ==
    /\ mounted = "Dashboard"
    /\ mounted' = "Dashboard unmounted"
    /\ timers' = [interval |-> FALSE, timeouts |-> 0]
    /\ dbFetches' = <<>>
    /\ out' = Output(<<"unmount">>, <<>>, <<>>, <<>>, <<>>)
    /\ UNCHANGED <<arg, ret, tl, tlFetches, db, dbCalls, events, loadMores, origin>>

\* The component is torn down: the effect's cleanup, clearInterval(interval).
UnmountDashboard ==
    /\ mounted = "Dashboard"
    /\ mounted' = "Dashboard unmounted"
    /\ timers' = [timers EXCEPT !.interval = FALSE]
    /\ out' = Output(<<"unmount">>, <<>>, <<>>, <<>>, <<>>)
    /\ UNCHANGED <<arg, ret, tl, tlFetches, db, dbFetches, dbCalls, events, loadMores, origin>>

\* The ways the four requests of one call can end: any of them may fail, each
\* other one gets any of its bodies.  When all four fail the backend did not
\* answer (each request times out); when only some fail the backend answered
\* those with an error status.
FailureOf(failed) ==
    CHOOSE e \in Errors : (e.response = Undefined) <=> (failed = 1..Len(Slices))

AllOutcomes ==
    UNION {
        {[k \in 1..Len(Slices) |->
             IF k \in failed
             THEN [ok |-> FALSE, data |-> Undefined, error |-> FailureOf(failed)]
             ELSE [ok |-> TRUE, data |-> IF Slices[k] = "schedulerStatus"
                                        THEN s ELSE CHOOSE d \in ResponseData(Slices[k]) : TRUE,
                   error |-> Undefined]] :
            s \in (IF 2 \in failed THEN {Undefined} ELSE ResponseData("schedulerStatus"))} :
        failed \in SUBSET (1..Len(Slices))}

DashboardNext ==
    \/ MountDashboard
    \/ Tick
    \/ \E i \in 1..MaxInflight, outcomes \in AllOutcomes : DashboardSettled(i, outcomes)
    \/ HandleRunScraping
    \/ HandleToggleScheduler
    \/ \E i \in 1..MaxInflight : CallResolved(i)
    \/ \E i \in 1..MaxInflight, error \in Errors : CallRejected(i, error)
    \/ TimeoutFires
    \/ UnmountDashboard

-----------------------------------------------------------------------------
(* State of the components *)

ComponentsInit ==
    /\ mounted = "none"
    /\ tl = TweetsListInit
    /\ tlFetches = <<>>
    /\ db = DashboardInit
    /\ dbFetches = <<>>
    /\ dbCalls = <<>>
    /\ timers = [interval |-> FALSE, timeouts |-> 0]
    /\ events = 0
    /\ loadMores = 0
    /\ origin = OriginInit
    /\ out = NoOutput

componentVars == <<mounted, tl, tlFetches, db, dbFetches, dbCalls, timers,
                   events, loadMores, origin, out>>

Init ==
    /\ arg = 0
    /\ ret = <<>>
    /\ ComponentsInit

Next == TweetsListNext \/ DashboardNext

Spec == Init /\ [][Next]_vars

-----
(* Specification of getTweets alone: every params object over the first    *)
(* MaxKeys filter keys, each key absent or holding any value of QueryValues *)

QueryKeys == {FilterKeys[i] : i \in 1..MaxKeys}

QueryValues == {Undefined, Null, Str(""), Str("ai"), Bool(FALSE), Bool(TRUE),
                Num(0), Num(20), Frac(80)}

ParamObjects == UNION {[S -> QueryValues] : S \in SUBSET QueryKeys}

InitQuery ==
    /\ arg \in ParamObjects
    /\ ret = <<>>
    /\ ComponentsInit

CallGetTweets ==
    /\ ret = <<>>
    /\ ret' = <<GetTweets(arg)>>
    /\ UNCHANGED <<arg, componentVars>>

NextQuery == CallGetTweets

SpecQuery == InitQuery /\ [][NextQuery]_vars

-----------------------------------------------------------------------------
(* Specification of getQualityColor alone *)

InitQuality ==
    /\ arg \in 0..MaxScoreHundredths
    /\ ret = <<>>
    /\ ComponentsInit

CallGetQualityColor ==
    /\ ret = <<>>
    /\ ret' = <<GetQualityColor(arg)>>
    /\ UNCHANGED <<arg, componentVars>>

NextQuality == CallGetQualityColor

SpecQuality == InitQuality /\ [][NextQuality]_vars

-----------------------------------------------------------------------------
(* C1 *)

\* The values of the name/value pairs of `pairs` whose name is `key`.
ValuesOf(pairs, key) == SelectSeq(pairs, LAMBDA p : p[1] = key)

\* C1: in the query getTweets builds, a key whose value is undefined, null or
\* the empty string does not appear (an absent key does not appear either),
\* and every other key appears exactly once, with the string its value
\* coerces to: false gives "false", 0 gives "0", 20 gives "20", 0.8 gives "0.8".
C1_QueryConstruction ==
    ret # <<>> =>
        /\ \A k \in QueryKeys :
              LET found == ValuesOf(ret[1].query, k)
              IN  IF k \in DOMAIN arg /\ arg[k] \notin {Undefined, Null, Str("")}
                  THEN /\ Len(found) = 1
                       /\ found[1][2] =
                            (CASE arg[k] = Bool(FALSE) -> "false"
                               [] arg[k] = Bool(TRUE)  -> "true"
                               [] arg[k] = Num(0)      -> "0"
                               [] arg[k] = Num(20)     -> "20"
                               [] arg[k] = Frac(80)    -> "0.8"
                               [] OTHER                -> arg[k].v)
                  ELSE found = <<>>
        /\ \A i \in 1..Len(ret[1].query) : ret[1].query[i][1] \in DOMAIN arg

\* A call whose object holds an unset filter next to the two falsy values
\* that must still be sent: one key null, one key false, one key 0.
C1_Witness ==
    /\ ret # <<>>
    /\ DOMAIN arg = QueryKeys
    /\ \E k1, k2, k3 \in QueryKeys :
          /\ arg[k1] = Null /\ arg[k2] = Bool(FALSE) /\ arg[k3] = Num(0)
          /\ ValuesOf(ret[1].query, k1) = <<>>
          /\ ValuesOf(ret[1].query, k2) = <<<<k2, "false">>>>
          /\ ValuesOf(ret[1].query, k3) = <<<<k3, "0">>>>

-----------------------------------------------------------------------------
(* C2 *)

\* The call of fetchTweets issued last.
LastFetch == tlFetches[Len(tlFetches)]

\* C2: the step of handleFilterChange(key, value) issues exactly one list
\* request, and that request carries offset 0 and the new value of the field:
\* in the filters handed to getTweets, and in the query sent (offset=0; the
\* field with the new value, or no such field when the new value is null or '').
C2_FilterChangeResetsOffset ==
    out.event[1] = "handleFilterChange" =>
        LET key   == out.event[2]
            value == out.event[3]
        IN  /\ Len(out.http) = 1
            /\ out.http[1] = LastFetch.request
            /\ LastFetch.params.offset = Num(0)
            /\ LastFetch.params[key] = value
            /\ tl.filters = LastFetch.params
            /\ ValuesOf(out.http[1].query, "offset") = <<<<"offset", "0">>>>
            /\ ValuesOf(out.http[1].query, key) =
                  IF value \in {Null, Str("")} THEN <<>>
                  ELSE <<<<key, JSToString(value)>>>>

\* A filter is changed while the second page is on display, that is after a
\* load-more whose page has arrived.
C2_Witness ==
    /\ out.event[1] = "handleFilterChange"
    /\ Len(tl.tweets) > 0
    /\ tl.tweets[1].id = DefaultLimit + 1
    /\ LastFetch.params.offset = Num(0)

-----------------------------------------------------------------------------
(* C3 *)

OtherFilterKeys == {"query", "author", "category", "sentiment", "has_media",
                    "is_thread", "min_quality_score", "limit"}

\* C3: a load-more step raises the offset by exactly the page size (limit),
\* leaves the eight other filter fields as they were, and issues one request
\* carrying the new filters; and after n load-more steps in a row since the
\* mount or the last filter change the offset is n * limit.
C3_LoadMoreAdvancesOnePage ==
    /\ [](mounted # "none" => tl.filters.offset = Num(loadMores * tl.filters.limit.v))
    /\ [][out'.event = <<"handleLoadMore">> =>
            /\ tl'.filters.offset = Num(tl.filters.offset.v + tl.filters.limit.v)
            /\ \A k \in OtherFilterKeys : tl'.filters[k] = tl.filters[k]
            /\ DOMAIN tl'.filters = DOMAIN tl.filters
            /\ Len(out'.http) = 1
            /\ tlFetches'[Len(tlFetches')].params = tl'.filters]_vars

\* Two load-more steps in a row: the request for the third page is out.
C3_Witness ==
    /\ out.event = <<"handleLoadMore">>
    /\ loadMores = 2
    /\ LastFetch.params.offset = Num(2 * DefaultLimit)

-----------------------------------------------------------------------------
(* C4 *)

\* The outcomes of the four requests of the refresh that settled last.
SettledOutcomes == out.event[4]

\* C4: when a refresh of the mounted Dashboard settles, whichever of its four
\* requests failed, every request that succeeded has its body in the state, every
\* request that failed has its slice at the empty default ({} or, for sessions,
\* []), no error reaches the catch block of fetchDashboardData (no error toast,
\* all four setters called) and loading is false; a failed scheduler-status
\* request leaves the scheduler shown as stopped.
C4_PartialFailureIsolation ==
    (out.event[1] = "settled" /\ mounted = "Dashboard") =>
        /\ \A k \in 1..Len(Slices) :
              db[Slices[k]] =
                  IF SettledOutcomes[k].ok THEN SettledOutcomes[k].data
                  ELSE IF Slices[k] = "sessions" THEN <<>>
                  ELSE [t |-> "object", v |-> <<>>]
        /\ out.toasts = <<>>
        /\ out.sets = <<"setAnalytics", "setSchedulerStatus", "setSessions",
                        "setConfig", "setLoading">>
        /\ ~db.loading
        /\ ~SettledOutcomes[2].ok => SchedulerShown(db) = "Stopped"

\* The scheduler-status request failed and the three others succeeded.
C4_Witness ==
    /\ out.event[1] = "settled"
    /\ mounted = "Dashboard"
    /\ ~SettledOutcomes[2].ok
    /\ \A k \in {1, 3, 4} : SettledOutcomes[k].ok
    /\ db.analytics = Obj([total_tweets |-> Num(42)])
    /\ db.schedulerStatus = EmptyObject

-----------------------------------------------------------------------------
(* C5 *)

SchedulerCalls(http) ==
    SelectSeq(http, LAMBDA r : r \in {StartScheduler, StopScheduler})

\* C5: a step of the toggle action issues exactly one request, which is the
\* stop call when the scheduler status held has running = true and the start
\* call when running is false or there is no running field (status null or {});
\* and no other step issues a start or stop call.
C5_ToggleLogic ==
    IF out.event[1] = "handleToggleScheduler"
    THEN LET status  == out.event[2]
             running == /\ status.t = "object"
                        /\ "running" \in DOMAIN status.v
                        /\ status.v["running"] = Bool(TRUE)
         IN  out.http = IF running THEN <<[method |-> "POST", url |-> "/scheduler/stop"]>>
                        ELSE <<[method |-> "POST", url |-> "/scheduler/start"]>>
    ELSE SchedulerCalls(out.http) = <<>>

\* The toggle is used while the status is {} (its request had failed): start.
C5_Witness ==
    /\ out.event = <<"handleToggleScheduler", EmptyObject>>
    /\ out.http = <<StartScheduler>>
    /\ dbCalls[Len(dbCalls)].request = StartScheduler

-----------------------------------------------------------------------------
(* C6 *)

\* C6: when a list request of the mounted Tweet Browser fails, the tweet list,
\* the filters and the selected tweet stay as they were, and loading is false
\* afterwards.
C6_FailedFetchKeepsState ==
    [][(out'.event[1] = "rejected" /\ out'.event[2] = "fetchTweets"
        /\ mounted = "TweetsList") =>
            /\ tl'.tweets = tl.tweets
            /\ tl'.filters = tl.filters
            /\ tl'.selectedTweet = tl.selectedTweet
            /\ tl'.loading = FALSE
            /\ DOMAIN tl' = {"tweets", "loading", "filters", "selectedTweet"}]_vars

\* A load-more request has failed while the first page is on display and one
\* of its tweets is open in the overlay.
C6_Witness ==
    /\ out.event[1] = "rejected"
    /\ out.event[2] = "fetchTweets"
    /\ mounted = "TweetsList"
    /\ Len(tl.tweets) = DefaultLimit
    /\ tl.selectedTweet = [id |-> 1]
    /\ tl.filters.offset = Num(DefaultLimit)
    /\ ~tl.loading

-----------------------------------------------------------------------------
(* C7 *)

\* The last step handled the failure of a call awaited by a handler.
CallFailed == out.event[1] = "rejected"

\* The last step settled a refresh of which at least one request failed.
RefreshRequestFailed ==
    /\ out.event[1] = "settled"
    /\ \E k \in 1..Len(Slices) : ~SettledOutcomes[k].ok

NumberFailed == Cardinality({k \in 1..Len(Slices) : ~SettledOutcomes[k].ok})

\* C7 as stated: every failure, a failed request of a Dashboard refresh
\* included, is logged and raises a notification.
C7_AsStated ==
    (CallFailed \/ RefreshRequestFailed) =>
        /\ out.logs # <<>>
        /\ out.toasts # <<>>

\* C7, amended: the failure of a call awaited by fetchTweets, handleRunScraping
\* or handleToggleScheduler is logged twice (by the response interceptor and by
\* the handler's catch block), raises one error toast and leaves the state as
\* it was (fetchTweets clears loading).  The failure of a request of a Dashboard
\* refresh is logged by the response interceptor only: no toast is raised, and
\* the slice is set to its empty default.
C7_FailureHandling ==
    /\ [](CallFailed =>
            /\ Len(out.logs) = 2
            /\ out.logs[1] = "API Error: " \o
                  (IF out.event[3].response = Undefined THEN out.event[3].message
                   ELSE out.event[3].response.v)
            /\ Len(out.toasts) = 1
            /\ out.toasts[1] \in {"error: Failed to load tweets",
                                  "error: Failed to start scraping session",
                                  "error: Failed to toggle scheduler"})
    /\ [](RefreshRequestFailed =>
            /\ Len(out.logs) = NumberFailed
            /\ \A j \in 1..Len(out.logs) :
                  out.logs[j] \in {"API Error: timeout of 30000ms exceeded",
                                   "API Error: Internal Server Error"}
            /\ out.toasts = <<>>
            /\ mounted = "Dashboard" =>
                  \A k \in 1..Len(Slices) :
                      ~SettledOutcomes[k].ok =>
                          db[Slices[k]] \in {EmptyObject, EmptyArray})
    /\ [][out'.event[1] = "rejected" =>
            /\ db' = db
            /\ tl'.tweets = tl.tweets
            /\ tl'.filters = tl.filters
            /\ tl'.selectedTweet = tl.selectedTweet]_vars

\* All four requests of a refresh of the mounted Dashboard failed: four lines
\* from the interceptor, no toast, every slice at its default.
C7_Witness ==
    /\ out.event[1] = "settled"
    /\ mounted = "Dashboard"
    /\ NumberFailed = 4
    /\ Len(out.logs) = 4
    /\ out.toasts = <<>>
    /\ db.analytics = EmptyObject

-----------------------------------------------------------------------------
(* C8 *)

\* C8 as stated: in every state of a mounted component its action controls
\* are available.
C8_AsStated ==
    /\ mounted = "Dashboard" =>
          {"Run Scraping", "Toggle Scheduler"} \subseteq DashboardControls(db)
    /\ mounted = "TweetsList" => FilterControls \subseteq TweetsListControls(tl)

\* C8, amended: the Tweet Browser renders its filter controls in every state,
\* also while a fetch is in flight and after failed requests.  The Dashboard
\* replaces everything by the spinner while its loading flag is set, which every
\* refresh does when it starts; its action controls are available whenever no
\* refresh is in flight, whatever failed before.
C8_ControlsAvailable ==
    /\ mounted = "TweetsList" => FilterControls \subseteq TweetsListControls(tl)
    /\ (mounted = "Dashboard" /\ dbFetches = <<>>) =>
          {"Run Scraping", "Toggle Scheduler"} \subseteq DashboardControls(db)
    /\ (mounted = "Dashboard" /\ db.loading) => DashboardControls(db) = {}

\* Every request of the Dashboard's last refresh failed and none is in flight:
\* both buttons are there.
C8_Witness ==
    /\ mounted = "Dashboard"
    /\ out.event[1] = "settled"
    /\ NumberFailed = Len(Slices)
    /\ dbFetches = <<>>
    /\ DashboardControls(db) = {"Run Scraping", "Toggle Scheduler"}

-----------------------------------------------------------------------------
(* C9 *)

\* C9: no step that handles a response (failed or not) re-issues a request:
\* it sends nothing, except the refresh that follows a successful toggle.  Each
\* trigger sends each of its requests once: one list request per mount, filter
\* change or load-more of the Tweet Browser; the four refresh requests, once
\* each, per mount, timer tick, fired timeout or successful toggle of the
\* Dashboard; one request per run-scraping or toggle click.  The error a
\* handler catches is the one the call failed with.
C9_NoRetry ==
    LET kind == out.event[1]
        refresh == <<[method |-> "GET", url |-> "/analytics"],
                     [method |-> "GET", url |-> "/scheduler/status"],
                     [method |-> "GET", url |-> "/scraper/sessions?limit=5"],
                     [method |-> "GET", url |-> "/config"]>>
    IN  /\ kind \in {"rejected", "settled"} => out.http = <<>>
        /\ kind = "resolved" =>
              out.http = IF out.event[2] = "handleToggleScheduler" THEN refresh ELSE <<>>
        /\ kind \in {"tick", "timeout"} => out.http = refresh
        /\ kind = "mount" =>
              IF mounted \in {"Dashboard", "Dashboard unmounted"}
              THEN out.http = refresh
              ELSE Len(out.http) = 1 /\ out.http[1] = GetTweets(InitialFilters)
        /\ kind \in {"handleFilterChange", "handleLoadMore"} =>
              Len(out.http) = 1 /\ out.http[1].method = "GET"
        /\ kind = "handleRunScraping" =>
              out.http = <<[method |-> "POST", url |-> "/scraper/run"]>>
        /\ kind = "handleToggleScheduler" => Len(out.http) = 1
        /\ kind \in {"select", "close", "unmount", "none"} => out.http = <<>>
        /\ kind = "rejected" =>
              out.logs[2] \in {prefix \o out.event[3].message :
                                 prefix \in {"Error fetching tweets: ",
                                             "Error running scraping: ",
                                             "Error toggling scheduler: "}}

\* A toggle call has failed: nothing is sent again, nothing is in flight.
C9_Witness ==
    /\ out.event[1] = "rejected"
    /\ out.event[2] = "handleToggleScheduler"
    /\ out.http = <<>>
    /\ dbCalls = <<>>
    /\ dbFetches = <<>>

-----------------------------------------------------------------------------
(* C10 *)

\* C10: a score of 0.80 or more gets the high (green) styling, a score from
\* 0.60 up to but not including 0.80 the medium (yellow) styling, a score under
\* 0.60 the low (red) styling; 0.80 and 0.60 themselves belong to the upper band.
C10_QualityThresholds ==
    ret # <<>> =>
        /\ (arg >= 80) <=> (ret[1] = "text-green-600 bg-green-100")
        /\ (arg >= 60 /\ arg < 80) <=> (ret[1] = "text-yellow-600 bg-yellow-100")
        /\ (arg < 60) <=> (ret[1] = "text-red-600 bg-red-100")

\* The boundary score 0.80 has been styled, and styled high.
C10_Witness ==
    /\ arg = 80
    /\ ret = <<"text-green-600 bg-green-100">>

-----------------------------------------------------------------------------
(* C11 *)

\* The last step handled the answer to a call of fetchTweets, or the four
\* answers to a call of fetchDashboardData, of a mounted component.
TweetsAnswered ==
    out.event[1] = "resolved" /\ out.event[2] = "fetchTweets" /\ mounted = "TweetsList"

RefreshAnswered == out.event[1] = "settled" /\ mounted = "Dashboard"

\* The call of fetchTweets, or of fetchDashboardData, answered in the last step.
TweetsCall == out.event[4]

RefreshCall == out.event[5]

\* C11: a component that fetches again leaves its earlier calls waiting, and
\* the answer to a call is committed whenever it comes, also after the answer
\* to a call made later (the call was overtaken): the tweet list is then the
\* page of the overtaken call's filters, and the Dashboard's four slices are
\* the overtaken call's results, whatever the later call had put there.
C11_StaleOverwrite ==
    /\ [][/\ (out'.event[1] \in {"handleFilterChange", "handleLoadMore"}) =>
                (/\ Len(tlFetches') = Len(tlFetches) + 1
                 /\ SubSeq(tlFetches', 1, Len(tlFetches)) = tlFetches)
          /\ (out'.event \in {<<"tick">>, <<"timeout">>,
                               <<"resolved", "handleToggleScheduler">>}) =>
                (/\ Len(dbFetches') = Len(dbFetches) + 1
                 /\ SubSeq(dbFetches', 1, Len(dbFetches)) = dbFetches)]_vars
    /\ [](TweetsAnswered =>
            /\ Len(tl.tweets) \in {0, 1, TweetsCall.params.limit.v}
            /\ \A j \in 1..Len(tl.tweets) :
                  tl.tweets[j] = [id |-> TweetsCall.params.offset.v + j])
    /\ [](RefreshAnswered =>
            \A k \in 1..Len(Slices) :
                db[Slices[k]] = IF SettledOutcomes[k].ok THEN SettledOutcomes[k].data
                                ELSE IF k = 3 THEN <<>>
                                ELSE [t |-> "object", v |-> <<>>])

\* Two filter changes in a row, the second while the first one's request was
\* waiting; the second was answered first and the first has now been: nothing
\* is waiting, and the list on display is the page of the first change's
\* filters, which are not the filters the component holds.
C11_Witness ==
    /\ TweetsAnswered
    /\ TweetsCall.overtaken
    /\ TweetsCall.params # InitialFilters
    /\ TweetsCall.params # tl.filters
    /\ tlFetches = <<>>
    /\ events = 2
    /\ tl.tweets = Page(TweetsCall.params, DefaultLimit)

\* The same in the Dashboard: the interval fired while the refresh of the
\* mount was waiting, the later refresh was answered first with the scheduler
\* running, and the answer to the earlier one has now put "stopped" in its place.
C11_WitnessDashboard ==
    /\ RefreshAnswered
    /\ RefreshCall.overtaken
    /\ dbFetches = <<>>
    /\ \A k \in 1..Len(Slices) : SettledOutcomes[k].ok
    /\ db.schedulerStatus = Obj([running |-> Bool(FALSE)])

-----------------------------------------------------------------------------
(* C12 *)

\* C12: when the request of a load-more (a request with an offset above 0:
\* every other request has offset 0) is answered to the mounted Tweet Browser,
\* the list becomes the page answered, that is at most limit records, the j-th
\* being the record offset + j of the backend; it is no longer than a page,
\* and no record that was on display before and is not in the page answered
\* is in it.
C12_LoadMoreReplaces ==
    [][(/\ out'.event[1] = "resolved"
        /\ out'.event[2] = "fetchTweets"
        /\ mounted = "TweetsList"
        /\ out'.event[4].params.offset.v > 0) =>
            LET params == out'.event[4].params
                shown  == {tl'.tweets[j] : j \in 1..Len(tl'.tweets)}
                before == {tl.tweets[j] : j \in 1..Len(tl.tweets)}
                page   == {[id |-> n] : n \in params.offset.v + 1 ..
                                              params.offset.v + Len(tl'.tweets)}
            IN  /\ Len(tl'.tweets) \in {0, 1, params.limit.v}
                /\ \A j \in 1..Len(tl'.tweets) :
                      tl'.tweets[j] = [id |-> params.offset.v + j]
                /\ shown = page
                /\ (before \ page) \cap shown = {}]_vars

\* The first page was on display, "Load More Tweets" was clicked, and the full
\* second page has arrived: records 21 to 40, and none of records 1 to 20.
C12_Witness ==
    /\ TweetsAnswered
    /\ TweetsCall.params.offset = Num(DefaultLimit)
    /\ loadMores = 1
    /\ Len(tl.tweets) = DefaultLimit
    /\ tl.tweets[1] = [id |-> DefaultLimit + 1]
    /\ \A j \in 1..Len(tl.tweets) : tl.tweets[j].id > DefaultLimit

-----------------------------------------------------------------------------
(* C13 *)

\* C13: a step that opens a card or closes the overlay changes selectedTweet
\* only (to the tweet of the card, or to null): the filters, the tweet list
\* and the loading flag stay as they were, no request is sent and the calls
\* waiting are the same.
C13_SelectionIsLocal ==
    [][(out'.event[1] \in {"select", "close"}) =>
            /\ tl'.filters = tl.filters
            /\ tl'.tweets = tl.tweets
            /\ tl'.loading = tl.loading
            /\ DOMAIN tl' = {"tweets", "loading", "filters", "selectedTweet"}
            /\ tl'.selectedTweet = IF out'.event[1] = "select"
                                   THEN tl.tweets[out'.event[2]]
                                   ELSE [t |-> "null", v |-> "null"]
            /\ out'.http = <<>>
            /\ tlFetches' = tlFetches]_vars

\* A card was opened and the overlay closed again: the page is still on
\* display, nothing is loading and nothing was requested.
C13_Witness ==
    /\ out.event = <<"close">>
    /\ tl.selectedTweet = Null
    /\ Len(tl.tweets) = DefaultLimit
    /\ ~tl.loading
    /\ tlFetches = <<>>
    /\ events = 2

-----------------------------------------------------------------------------
(* C14 *)

Unmounted == mounted \in {"Dashboard unmounted", "TweetsList unmounted"}

\* C14: the step that tears a component down clears the Dashboard's interval
\* and nothing else: the calls waiting and the timeouts set by run-scraping
\* stay.  After it the interval does not fire again; but the answers to a
\* call of fetchDashboardData or fetchTweets still run the rest of the call,
\* which calls the state setters, and a timeout that fires still runs
\* fetchDashboardData, which calls setLoading and sends the four requests.
C14_NoCancellationOnUnmount ==
    /\ [][(out'.event = <<"unmount">>) =>
            /\ dbFetches' = dbFetches
            /\ dbCalls' = dbCalls
            /\ tlFetches' = tlFetches
            /\ timers'.timeouts = timers.timeouts
            /\ timers'.interval = FALSE
            /\ Unmounted']_vars
    /\ [](Unmounted =>
            /\ ~timers.interval
            /\ out.event # <<"tick">>
            /\ out.event[1] = "settled" =>
                  out.sets = <<"setAnalytics", "setSchedulerStatus", "setSessions",
                              "setConfig", "setLoading">>
            /\ (out.event[1] = "resolved" /\ out.event[2] = "fetchTweets") =>
                  out.sets = <<"setTweets", "setLoading">>
            /\ (out.event[1] = "rejected" /\ out.event[2] = "fetchTweets") =>
                  out.sets = <<"setLoading">>
            /\ out.event = <<"timeout">> =>
                  /\ out.sets = <<"setLoading">>
                  /\ Len(out.http) = 4
                  /\ Len(dbFetches) > 0)

\* Run-scraping succeeded, the Dashboard was torn down while a refresh was
\* waiting, and the 2 s timeout has fired since: its four requests went out,
\* and both refreshes are waiting for their answers.
C14_Witness ==
    /\ mounted = "Dashboard unmounted"
    /\ out.event = <<"timeout">>
    /\ out.http = DashboardRequests
    /\ Len(dbFetches) = 2
    /\ timers.timeouts = 0

\* The answer to the list request of a Tweet Browser torn down in the meantime.
C14_WitnessTweetsList ==
    /\ mounted = "TweetsList unmounted"
    /\ out.event[1] = "resolved"
    /\ out.sets = <<"setTweets", "setLoading">>

-----------------------------------------------------------------------------
(* C15 *)

SliceNames == {"analytics", "schedulerStatus", "sessions", "config"}

\* C15: the four slices change only in the step in which a call of
\* fetchDashboardData gets the last of its answers, and that step writes all
\* four, each with the call's own result (the body answered, or the empty
\* default of a request that failed); so in every state the four slices are
\* all of one call, the last that wrote, or all still at their initial values.
C15_RefreshCommitsAtomically ==
    /\ [][\/ \A s \in SliceNames : db'[s] = db[s] /\ origin'[s] = origin[s]
          \/ /\ out'.event[1] = "settled"
             /\ mounted = "Dashboard"
             /\ \A k \in 1..4 :
                   db'[Slices[k]] =
                       IF out'.event[4][k].ok THEN out'.event[4][k].data
                       ELSE IF Slices[k] = "sessions" THEN <<>>
                       ELSE [t |-> "object", v |-> <<>>]
             /\ \A s \in SliceNames : origin'[s] = "last"]_vars
    /\ [](\/ /\ \A s \in SliceNames : origin[s] = "none"
              /\ db.analytics = Null /\ db.schedulerStatus = Null
              /\ db.sessions = <<>> /\ db.config = Null
           \/ /\ \A s \in SliceNames : origin[s] = "last"
              /\ db.analytics # Null /\ db.schedulerStatus # Null
              /\ db.config # Null)

\* Two refreshes overlapped and the one called first was answered last, its
\* analytics request having failed: analytics is at its empty default and the
\* other three slices hold that call's bodies; nothing of the call answered
\* before it is left.
C15_Witness ==
    /\ RefreshAnswered
    /\ RefreshCall.overtaken
    /\ ~SettledOutcomes[1].ok
    /\ \A k \in 2..4 : SettledOutcomes[k].ok
    /\ db.analytics = EmptyObject
    /\ db.schedulerStatus = SettledOutcomes[2].data
    /\ \A s \in SliceNames : origin[s] = "last"

-----------------------------------------------------------------------------
(* C16 *)

\* C16: while a component is mounted, its loading flag is true exactly when
\* one of its calls of fetchTweets, or of fetchDashboardData, is waiting for
\* an answer: true while at least one is waiting, false once none is.
C16_LoadingWhileInFlight ==
    /\ mounted = "TweetsList" => (tl.loading <=> tlFetches # <<>>)
    /\ mounted = "Dashboard" => (db.loading <=> dbFetches # <<>>)

\* The half of C16 the components do keep: with no call waiting, the loading
\* flag of a mounted component is false.
C16_IdleIsNotLoading ==
    /\ (mounted = "TweetsList" /\ tlFetches = <<>>) => ~tl.loading
    /\ (mounted = "Dashboard" /\ dbFetches = <<>>) => ~db.loading

====
